---- MODULE Spec2Model ----
(***************************************************************************)
(* Model of scripts/aftership_intransit_export.py: the field extractors,   *)
(* the identity key and dedup gate, the normalizer and the run pipeline    *)
(* of main() with its persisted dedup state.                               *)
(*                                                                         *)
(* Python values are tagged records.  A Python str is a sequence of        *)
(* one-character strings, so that strip(), lower() and str() are computed  *)
(* character by character.  A dict is a function whose domain is a set of  *)
(* such sequences; dict.get returns None for a missing key, so an absent   *)
(* top-level field of a tracking is the value None.                        *)
(***************************************************************************)
EXTENDS Integers, Sequences, FiniteSets, TLC

VARIABLES
    DEDUP_ENABLED,  \* module constant read from the environment (line 17)
    DEDUP_DAYS,     \* module constant read from the environment (line 16)
    pc,             \* position of main() in the current run
    now,            \* utcnow() of the current run, in seconds
    runs,           \* number of runs started so far
    disk,           \* the file state/handled.json
    handled,        \* main()'s local dict `handled`
    trackings,      \* main()'s local list `trackings`
    new_trackings,  \* main()'s local list `new_trackings`
    rows,           \* main()'s local list `rows`
    out_json,       \* what the current run wrote to output/returns_intransit.json
    out_xlsx,       \* what the current run wrote to output/returns_intransit.xlsx
    disk0,          \* history: the state file as it was when the run started
    saves,          \* history: number of save_state calls in the current run
    exports,        \* history: per identity key, the run times of its last two exported records
    fn_in,          \* argument of the function under test (function specifications)
    fn_out          \* its result

pvars == <<pc, now, runs, disk, handled, trackings, new_trackings, rows,
           out_json, out_xlsx, disk0, saves, exports>>
cvars == <<DEDUP_ENABLED, DEDUP_DAYS>>
fvars == <<fn_in, fn_out>>
vars == <<DEDUP_ENABLED, DEDUP_DAYS, pc, now, runs, disk, handled, trackings,
          new_trackings, rows, out_json, out_xlsx, disk0, saves, exports,
          fn_in, fn_out>>

----------------------------------------------------------------------------
(* Bounds of the model *)

MaxRuns == 2
MaxFetch == 2
MaxPairs == 2

----------------------------------------------------------------------------
(* Python values *)

None == [ty |-> "none"]
PStr(s) == [ty |-> "str", s |-> s]
PInt(n) == [ty |-> "int", n |-> n]
PDict(d) == [ty |-> "dict", d |-> d]
PList(l) == [ty |-> "list", l |-> l]
\* the str produced by datetime.isoformat(): its instant and its UTC offset
\* ("" for a naive datetime)
PIso(secs, tz) == [ty |-> "iso", secs |-> secs, tz |-> tz]
\* the str produced by json.dumps of a str-to-str dict
PJson(d) == [ty |-> "json", of |-> d]

EmptyDict == [k \in {} |-> None]
EmptyStr == PStr(<< >>)

IsStr(v) == v.ty \in {"str", "iso", "json"}
IsDict(v) == v.ty = "dict"
IsList(v) == v.ty = "list"

\* Python truth value of v
Truthy(v) ==
    CASE v.ty = "none" -> FALSE
      [] v.ty = "str" -> v.s # << >>
      [] v.ty = "int" -> v.n # 0
      [] v.ty = "dict" -> DOMAIN v.d # {}
      [] v.ty = "list" -> v.l # << >>
      [] OTHER -> TRUE

\* a or b
Or(a, b) == IF Truthy(a) THEN a ELSE b

\* d.get(k) on a dict d (a function)
Get(d, k) == IF k \in DOMAIN d THEN d[k] ELSE None

\* d.get(k, default)
GetOr(d, k, default) == IF k \in DOMAIN d THEN d[k] ELSE default

Digits == <<"0", "1", "2", "3", "4", "5", "6", "7", "8", "9">>

\* str(v) for None, str and one-digit int, the values the model stringifies
Str(v) ==
    CASE v.ty = "none" -> <<"N", "o", "n", "e">>
      [] v.ty = "str" -> v.s
      [] v.ty = "int" -> <<Digits[v.n + 1]>>
      [] v.ty = "list" -> <<"[", "]">>
      [] v.ty = "dict" -> <<"{", "}">>

UpperChars == <<"A", "B", "C", "D", "E", "F", "G", "H", "I", "J", "K", "L", "M",
                "N", "O", "P", "Q", "R", "S", "T", "U", "V", "W", "X", "Y", "Z">>
LowerChars == <<"a", "b", "c", "d", "e", "f", "g", "h", "i", "j", "k", "l", "m",
                "n", "o", "p", "q", "r", "s", "t", "u", "v", "w", "x", "y", "z">>

LowerChar(c) ==
    IF \E i \in 1..Len(UpperChars) : UpperChars[i] = c
    THEN LowerChars[CHOOSE i \in 1..Len(UpperChars) : UpperChars[i] = c]
    ELSE c

\* s.lower()
Lower(s) == [i \in 1..Len(s) |-> LowerChar(s[i])]

IsSpace(c) == c \in {" ", "\t", "\n", "\r"}

RECURSIVE LStrip(_)
LStrip(s) == IF s # << >> /\ IsSpace(Head(s)) THEN LStrip(Tail(s)) ELSE s

RECURSIVE RStrip(_)
RStrip(s) ==
    IF s # << >> /\ IsSpace(s[Len(s)]) THEN RStrip(SubSeq(s, 1, Len(s) - 1)) ELSE s

\* s.strip()
Strip(s) == RStrip(LStrip(s))

----------------------------------------------------------------------------
(* Names and literals of the source *)

k_name == <<"n", "a", "m", "e">>
k_value == <<"v", "a", "l", "u", "e">>
k_custom_1 == <<"c", "u", "s", "t", "o", "m", "_", "1">>
k_sales_office_id == <<"s", "a", "l", "e", "s", "_", "o", "f", "f", "i", "c", "e", "_", "i", "d">>
k_location == <<"l", "o", "c", "a", "t", "i", "o", "n">>
k_city == <<"c", "i", "t", "y">>
k_state == <<"s", "t", "a", "t", "e">>
k_country_name == <<"c", "o", "u", "n", "t", "r", "y", "_", "n", "a", "m", "e">>
k_id == <<"i", "d">>
k_checkpoint_id == <<"c", "h", "e", "c", "k", "p", "o", "i", "n", "t", "_", "i", "d">>
k_checkpoint_time == <<"c", "h", "e", "c", "k", "p", "o", "i", "n", "t", "_", "t", "i", "m", "e">>
s_parcelhub == <<"p", "a", "r", "c", "e", "l", "h", "u", "b">>
s_UNKNOWN == <<"U", "N", "K", "N", "O", "W", "N">>

AFTERSHIP_TAG == <<"P", "e", "n", "d", "i", "n", "g">>
ORDER_ID_CUSTOM_FIELD ==
    <<"e", "x", "t", "e", "r", "n", "a", "l", "_", "o", "r", "d", "e", "r", "_", "i", "d">>

\* seconds in timedelta(days=1)
DaySeconds == 86400

----------------------------------------------------------------------------
(* Field extractors *)

\* d with d[k] = v, as the assignment out[k] = v
DictSet(d, k, v) == [x \in DOMAIN d \cup {k} |-> IF x = k THEN v ELSE d[x]]

\* "" if v is None else str(v)
StrOrEmpty(v) == IF v.ty = "none" THEN << >> ELSE Str(v)

\* the loop of get_all_custom_fields over the list form, from item i on
RECURSIVE cf_loop(_, _, _)
cf_loop(l, i, out) ==
    IF i > Len(l) THEN out
    ELSE IF ~IsDict(l[i]) THEN cf_loop(l, i + 1, out)
    ELSE IF Get(l[i].d, k_name).ty = "none" THEN cf_loop(l, i + 1, out)
    ELSE cf_loop(l, i + 1,
                 DictSet(out, Str(Get(l[i].d, k_name)), StrOrEmpty(Get(l[i].d, k_value))))

\* get_all_custom_fields with str(v) applied to a null value of the dict form
get_all_custom_fields_str_none(tracking) ==
    LET cf == tracking.custom_fields IN
    IF IsDict(cf) THEN [k \in DOMAIN cf.d |-> Str(cf.d[k])]
    ELSE IF IsList(cf) THEN cf_loop(cf.l, 1, EmptyDict)
    ELSE EmptyDict

\* get_all_custom_fields(tracking): a function from str to str
get_all_custom_fields(tracking) ==
    LET cf == tracking.custom_fields IN
    IF IsDict(cf) THEN [k \in DOMAIN cf.d |-> StrOrEmpty(cf.d[k])]
    ELSE IF IsList(cf) THEN cf_loop(cf.l, 1, EmptyDict)
    ELSE EmptyDict

\* extract_last_checkpoint that does not look at latest_checkpoint
extract_last_checkpoint_no_latest(tracking) ==
    LET last_cp == Or(tracking.last_checkpoint, PDict(EmptyDict))
        cps == Or(tracking.checkpoints, PList(<< >>))
    IN  IF IsDict(last_cp) /\ Truthy(last_cp) THEN last_cp.d
        ELSE IF IsList(cps) /\ Truthy(cps)
             THEN (IF IsDict(cps.l[Len(cps.l)]) THEN cps.l[Len(cps.l)].d ELSE EmptyDict)
             ELSE EmptyDict

\* extract_last_checkpoint(tracking): a dict (a function), possibly empty
extract_last_checkpoint(tracking) ==
    LET last_cp == Or(tracking.last_checkpoint, Or(tracking.latest_checkpoint, PDict(EmptyDict)))
        cps == Or(tracking.checkpoints, PList(<< >>))
    IN  IF IsDict(last_cp) /\ Truthy(last_cp) THEN last_cp.d
        ELSE IF IsList(cps) /\ Truthy(cps)
             THEN (IF IsDict(cps.l[Len(cps.l)]) THEN cps.l[Len(cps.l)].d ELSE EmptyDict)
             ELSE EmptyDict

----------------------------------------------------------------------------
(* Identity key and dedup gate *)

\* key_for_tracking(tracking): f"{tag}/{slug}/{tn}"
key_for_tracking(tracking) ==
    LET tag == Or(tracking.tag, Or(PStr(AFTERSHIP_TAG), PStr(s_UNKNOWN)))
        slug == Or(tracking.slug, EmptyStr)
        tn == Or(tracking.tracking_number, EmptyStr)
    IN  Str(tag) \o <<"/">> \o Str(slug) \o <<"/">> \o Str(tn)

\* datetime.fromisoformat(last): a datetime, or an exception for a value that
\* is not a str (TypeError) or not in ISO format (ValueError)
fromisoformat(last) ==
    IF last.ty = "iso"
    THEN [ok |-> TRUE, secs |-> last.secs, aware |-> last.tz # ""]
    ELSE [ok |-> FALSE, secs |-> 0, aware |-> FALSE]

\* now.isoformat() of the timezone-aware utcnow()
isoformat(t) == PIso(t, "+00:00")

Returns(b) == [raised |-> FALSE, val |-> b]
Raises == [raised |-> TRUE, val |-> FALSE]

\* should_skip with the window taken as timedelta(seconds=DEDUP_DAYS)
should_skip_seconds(tracking, handled_state, t, enabled, days) ==
    IF ~enabled \/ days <= 0 THEN Returns(FALSE)
    ELSE LET last == Get(handled_state, key_for_tracking(tracking)) IN
         IF ~Truthy(last) THEN Returns(FALSE)
         ELSE LET last_dt == fromisoformat(last) IN
              IF ~last_dt.ok THEN Returns(FALSE)
              ELSE IF ~last_dt.aware THEN Raises
              ELSE Returns(t - last_dt.secs < days)

\* should_skip that treats a value it cannot parse as a duplicate
should_skip_fail_closed(tracking, handled_state, t, enabled, days) ==
    IF ~enabled \/ days <= 0 THEN Returns(FALSE)
    ELSE LET last == Get(handled_state, key_for_tracking(tracking)) IN
         IF ~Truthy(last) THEN Returns(FALSE)
         ELSE LET last_dt == fromisoformat(last) IN
              IF ~last_dt.ok THEN Returns(TRUE)
              ELSE IF ~last_dt.aware THEN Raises
              ELSE Returns(t - last_dt.secs < days * DaySeconds)

\* should_skip(tracking, handled_state, now) under the configuration
\* (enabled, days); subtracting a naive datetime from the aware `now` raises
\* TypeError outside the try block
should_skip(tracking, handled_state, t, enabled, days) ==
    IF ~enabled \/ days <= 0 THEN Returns(FALSE)
    ELSE LET last == Get(handled_state, key_for_tracking(tracking)) IN
         IF ~Truthy(last) THEN Returns(FALSE)
         ELSE LET last_dt == fromisoformat(last) IN
              IF ~last_dt.ok THEN Returns(FALSE)
              ELSE IF ~last_dt.aware THEN Raises
              ELSE Returns(t - last_dt.secs < days * DaySeconds)

\* mark_handled(trackings, handled_state, now), from item i on
RECURSIVE mark_handled(_, _, _, _)
mark_handled(l, i, handled_state, t) ==
    IF i > Len(l) THEN handled_state
    ELSE mark_handled(l, i + 1, DictSet(handled_state, key_for_tracking(l[i]), isoformat(t)), t)

\* [t for t in trackings if not should_skip(t, handled, now)], from item i on;
\* an exception in should_skip ends the comprehension
RECURSIVE gate(_, _, _, _, _, _)
gate(l, i, handled_state, t, enabled, days) ==
    IF i > Len(l) THEN [raised |-> FALSE, val |-> << >>]
    ELSE LET r == should_skip(l[i], handled_state, t, enabled, days) IN
         IF r.raised THEN [raised |-> TRUE, val |-> << >>]
         ELSE LET rest == gate(l, i + 1, handled_state, t, enabled, days) IN
              IF rest.raised THEN rest
              ELSE [raised |-> FALSE,
                    val |-> IF r.val THEN rest.val ELSE <<l[i]>> \o rest.val]

----------------------------------------------------------------------------
(* Normalizer *)

\* the filter of normalize: custom_1 == ParcelHub, case-insensitive, trimmed
is_filtered(tracking) ==
    Lower(Strip(GetOr(get_all_custom_fields(tracking), k_custom_1, << >>))) = s_parcelhub

\* " ".join(parts) for a list of str
RECURSIVE Join(_)
Join(parts) ==
    IF parts = << >> THEN << >>
    ELSE IF Len(parts) = 1 THEN parts[1].s
    ELSE parts[1].s \o <<" ">> \o Join(Tail(parts))

\* v.strip() of a value: AttributeError unless v is a str
StripValue(v) ==
    IF v.ty = "str" THEN [raised |-> FALSE, val |-> PStr(Strip(v.s))]
    ELSE IF IsStr(v) THEN [raised |-> FALSE, val |-> v]
    ELSE [raised |-> TRUE, val |-> None]

\* one iteration of the loop of normalize for a tracking that is not filtered:
\* the row appended, or an exception
normalize_row(t, courier_map) ==
    LET custom_fields == get_all_custom_fields(t)
        last_cp == extract_last_checkpoint(t)
        direct == Get(last_cp, k_location)
        parts == SelectSeq(<<Get(last_cp, k_city), Get(last_cp, k_state),
                             Get(last_cp, k_country_name)>>, Truthy)
        join_raises == ~Truthy(direct) /\ \E i \in 1..Len(parts) : ~IsStr(parts[i])
        location == IF Truthy(direct) THEN direct ELSE PStr(Join(parts))
        slug == Or(t.slug, EmptyStr)
        unhashable == slug.ty \in {"list", "dict"}
        courier_name == IF slug.ty = "str" /\ slug.s \in DOMAIN courier_map
                        THEN PStr(courier_map[slug.s]) ELSE slug
        external_order_id == Strip(GetOr(custom_fields, ORDER_ID_CUSTOM_FIELD, << >>))
        order_id == IF external_order_id # << >> THEN external_order_id
                    ELSE Strip(Str(Or(t.order_id, EmptyStr)))
        sales_office_id == Strip(GetOr(custom_fields, k_sales_office_id, << >>))
        tracking_number == StripValue(Or(t.tracking_number, EmptyStr))
        status_tag == StripValue(Or(t.tag, Or(PStr(AFTERSHIP_TAG), EmptyStr)))
        title == StripValue(Or(t.title, EmptyStr))
        source == StripValue(Or(t.source, EmptyStr))
    IN  IF join_raises \/ unhashable \/ tracking_number.raised \/ status_tag.raised
           \/ title.raised \/ source.raised
        THEN [raised |-> TRUE, row |-> None]
        ELSE [raised |-> FALSE,
              row |-> [tracking_number |-> tracking_number.val,
                       carrier_slug |-> slug,
                       courier_name |-> courier_name,
                       status_tag |-> status_tag.val,
                       title |-> title.val,
                       order_id |-> PStr(order_id),
                       sales_office_id |-> PStr(sales_office_id),
                       source |-> source.val,
                       custom_fields |-> PDict([k \in DOMAIN custom_fields |-> PStr(custom_fields[k])]),
                       custom_fields_json |-> PJson(custom_fields),
                       last_checkpoint_id |->
                           Or(Get(last_cp, k_id), Or(Get(last_cp, k_checkpoint_id), EmptyStr)),
                       last_checkpoint_time |-> Or(Get(last_cp, k_checkpoint_time), EmptyStr),
                       last_checkpoint_location |-> Or(location, EmptyStr),
                       updated_at |-> Or(t.updated_at, EmptyStr)]]

\* normalize(trackings, courier_map), from item i on: the rows, or an exception
RECURSIVE normalize(_, _, _)
normalize(l, i, courier_map) ==
    IF i > Len(l) THEN [raised |-> FALSE, val |-> << >>]
    ELSE IF is_filtered(l[i]) THEN normalize(l, i + 1, courier_map)
    ELSE LET r == normalize_row(l[i], courier_map) IN
         IF r.raised THEN [raised |-> TRUE, val |-> << >>]
         ELSE LET rest == normalize(l, i + 1, courier_map) IN
              IF rest.raised THEN rest
              ELSE [raised |-> FALSE, val |-> <<r.row>> \o rest.val]

----------------------------------------------------------------------------
(* Exporters and state store *)

\* the items of write_json: each row without custom_fields_json
write_json(rs) ==
    [count |-> Len(rs),
     items |-> [i \in 1..Len(rs) |->
                  [f \in DOMAIN rs[i] \ {"custom_fields_json"} |-> rs[i][f]]]]

xlsx_headers ==
    <<"tracking_number", "carrier_slug", "courier_name", "status_tag", "order_id",
      "sales_office_id", "source", "last_checkpoint_id", "last_checkpoint_time",
      "last_checkpoint_location", "updated_at", "title", "custom_fields_json">>

\* the sheet of write_xlsx: the header row, then one row of cells per record
write_xlsx(rs) ==
    <<xlsx_headers>> \o
    [i \in 1..Len(rs) |-> [h \in 1..Len(xlsx_headers) |-> rs[i][xlsx_headers[h]]]]

NotWritten == [written |-> FALSE]
Written(content) == [written |-> TRUE, content |-> content]

\* the file state/handled.json: missing, not valid JSON, or a JSON object
FileMissing == [kind |-> "missing", map |-> EmptyDict]
FileCorrupt == [kind |-> "corrupt", map |-> EmptyDict]
FileMap(m) == [kind |-> "map", map |-> m]

\* load_state(): the dict, or the exception of json.load
load_state(file) ==
    IF file.kind = "corrupt" THEN [raised |-> TRUE, val |-> EmptyDict]
    ELSE [raised |-> FALSE, val |-> file.map]

\* save_state(state): the file after json.dump
save_state(state) == FileMap(state)

----------------------------------------------------------------------------
(* Inputs of the run pipeline *)

Tracking0 ==
    [tag |-> None, slug |-> None, tracking_number |-> None, custom_fields |-> None,
     last_checkpoint |-> None, latest_checkpoint |-> None, checkpoints |-> None,
     order_id |-> None, title |-> None, source |-> None, updated_at |-> None]

s_dhl == <<"d", "h", "l">>
s_DHL == <<"D", "H", "L">>
s_ParcelHub_padded == <<" ", "P", "a", "r", "c", "e", "l", "H", "u", "b", " ">>

ShipmentOf(tn, cf) ==
    [Tracking0 EXCEPT !.slug = PStr(s_dhl), !.tracking_number = PStr(tn),
                      !.custom_fields = cf]

\* trackings the provider returns to a run: shipment 1, plain or carrying
\* custom_1 = " ParcelHub ", and shipment 2
RunTrackings ==
    {ShipmentOf(<<"1">>, None),
     ShipmentOf(<<"1">>, PDict([k \in {k_custom_1} |-> PStr(s_ParcelHub_padded)])),
     ShipmentOf(<<"2">>, None)}

RECURSIVE SeqsUpTo(_, _)
SeqsUpTo(S, n) ==
    IF n = 0 THEN {<< >>}
    ELSE LET shorter == SeqsUpTo(S, n - 1) IN
         shorter \cup {Append(l, x) : l \in {q \in shorter : Len(q) = n - 1}, x \in S}

RunKeys == {key_for_tracking(t) : t \in RunTrackings}

\* values a state file may hold for a key before the first run: a timestamp
\* written by an earlier run, a naive ISO timestamp, text that is no timestamp
StoredValues == {PIso(0, "+00:00"), PIso(0, ""), PStr(<<"x">>)}

\* state files before the first run: any of these values for shipment 1,
\* and for shipment 2 no entry or the timestamp of an earlier run
StoredMaps ==
    {m \in UNION {[ks -> StoredValues] : ks \in SUBSET RunKeys} :
        \A k \in DOMAIN m : k = key_for_tracking(ShipmentOf(<<"1">>, None)) \/ m[k] = PIso(0, "+00:00")}

\* seconds between the starts of two runs
Deltas == {DaySeconds - 1, DaySeconds}

\* results of load_courier_map: no file, or a file naming dhl
CourierMaps == {EmptyDict, [k \in {s_dhl} |-> s_DHL]}

\* dedup configurations (DEDUP_ENABLED, DEDUP_DAYS) of a deployment
Configs == {<<TRUE, 1>>, <<TRUE, 0>>, <<FALSE, 1>>}

----------------------------------------------------------------------------
(* The run pipeline: main() *)

NoFn == [f |-> "none"]

Locals0 ==
    /\ trackings = << >>
    /\ new_trackings = << >>
    /\ rows = << >>
    /\ out_json = NotWritten
    /\ out_xlsx = NotWritten

Init ==
    /\ \E c \in Configs : DEDUP_ENABLED = c[1] /\ DEDUP_DAYS = c[2]
    /\ pc = "idle"
    /\ now = 0
    /\ runs = 0
    /\ disk \in {FileMissing, FileCorrupt} \cup {FileMap(m) : m \in StoredMaps}
    /\ handled = EmptyDict
    /\ Locals0
    /\ disk0 = disk
    /\ saves = 0
    /\ exports = [k \in RunKeys |-> << >>]
    /\ fn_in = NoFn
    /\ fn_out = NoFn

\* positions at which an uncaught exception ended the run
Aborted == {"load_failed", "fetch_failed", "gate_failed", "normalize_failed"}

\* lines 257-258: a new process starts, reads the clock and loads the state
StartRun ==
    /\ pc \in {"idle", "done"} \cup Aborted
    /\ runs < MaxRuns
    /\ \E d \in Deltas : now' = now + d
    /\ runs' = runs + 1
    /\ disk0' = disk
    /\ saves' = 0
    /\ trackings' = << >>
    /\ new_trackings' = << >>
    /\ rows' = << >>
    /\ out_json' = NotWritten
    /\ out_xlsx' = NotWritten
    /\ handled' = load_state(disk).val
    /\ pc' = IF load_state(disk).raised THEN "load_failed" ELSE "loaded"
    /\ UNCHANGED <<disk, exports, cvars, fvars>>

\* line 261: get_trackings_by_tag returns the trackings of the response
FetchOk ==
    /\ pc = "loaded"
    /\ \E l \in SeqsUpTo(RunTrackings, MaxFetch) : trackings' = l
    /\ pc' = "fetched"
    /\ UNCHANGED <<now, runs, disk, handled, new_trackings, rows, out_json, out_xlsx,
                   disk0, saves, exports, cvars, fvars>>

\* a failed fetch after which the loaded state is saved all the same
FetchFails_saves ==
    /\ pc = "loaded"
    /\ pc' = "fetch_failed"
    /\ disk' = save_state(handled)
    /\ saves' = saves + 1
    /\ UNCHANGED <<now, runs, handled, trackings, new_trackings, rows, out_json,
                   out_xlsx, disk0, exports, cvars, fvars>>

\* lines 137-142: a response that is not ok raises
FetchFails ==
    /\ pc = "loaded"
    /\ pc' = "fetch_failed"
    /\ UNCHANGED <<now, runs, disk, handled, trackings, new_trackings, rows, out_json,
                   out_xlsx, disk0, saves, exports, cvars, fvars>>

\* line 268
Gate ==
    /\ pc = "fetched"
    /\ LET r == gate(trackings, 1, handled, now, DEDUP_ENABLED, DEDUP_DAYS) IN
       /\ new_trackings' = r.val
       /\ pc' = IF r.raised THEN "gate_failed" ELSE "gated"
    /\ UNCHANGED <<now, runs, disk, handled, trackings, rows, out_json, out_xlsx,
                   disk0, saves, exports, cvars, fvars>>

\* line 269; the courier file of the deployment names dhl
Normalize ==
    /\ pc = "gated"
    /\ LET r == normalize(new_trackings, 1, [k \in {s_dhl} |-> s_DHL]) IN
       /\ rows' = r.val
       /\ pc' = IF r.raised THEN "normalize_failed" ELSE "normalized"
    /\ UNCHANGED <<now, runs, disk, handled, trackings, new_trackings, out_json,
                   out_xlsx, disk0, saves, exports, cvars, fvars>>

\* the identity key of the shipment an exported record describes
row_key(row) ==
    Str(row.status_tag) \o <<"/">> \o Str(row.carrier_slug) \o <<"/">> \o Str(row.tracking_number)

\* the times of the last two exports of a key, after one more export at time t
LastTwo(times, t) == IF times = << >> THEN <<t>> ELSE <<times[Len(times)], t>>

\* the export log after the records rs were written at time t, from item i on
RECURSIVE log_exports(_, _, _, _)
log_exports(rs, i, log, t) ==
    IF i > Len(rs) THEN log
    ELSE log_exports(rs, i + 1, [log EXCEPT ![row_key(rs[i])] = LastTwo(@, t)], t)

\* line 272
WriteJson ==
    /\ pc = "normalized"
    /\ out_json' = Written(write_json(rows))
    /\ exports' = log_exports(rows, 1, exports, now)
    /\ pc' = "json_written"
    /\ UNCHANGED <<now, runs, disk, handled, trackings, new_trackings, rows, out_xlsx,
                   disk0, saves, cvars, fvars>>

\* line 273
WriteXlsx ==
    /\ pc = "json_written"
    /\ out_xlsx' = Written(write_xlsx(rows))
    /\ pc' = "xlsx_written"
    /\ UNCHANGED <<now, runs, disk, handled, trackings, new_trackings, rows, out_json,
                   disk0, saves, exports, cvars, fvars>>

\* the final step without the test of the dedup configuration
Persist_unconditional ==
    /\ pc = "xlsx_written"
    /\ handled' = mark_handled(new_trackings, 1, handled, now)
    /\ disk' = save_state(handled')
    /\ saves' = saves + 1
    /\ pc' = "done"
    /\ UNCHANGED <<now, runs, trackings, new_trackings, rows, out_json, out_xlsx,
                   disk0, exports, cvars, fvars>>

\* the final step marking every fetched tracking, suppressed ones included
Persist_marks_fetched ==
    /\ pc = "xlsx_written"
    /\ IF DEDUP_ENABLED /\ DEDUP_DAYS > 0
       THEN /\ handled' = mark_handled(trackings, 1, handled, now)
            /\ disk' = save_state(handled')
            /\ saves' = saves + 1
       ELSE UNCHANGED <<handled, disk, saves>>
    /\ pc' = "done"
    /\ UNCHANGED <<now, runs, trackings, new_trackings, rows, out_json, out_xlsx,
                   disk0, exports, cvars, fvars>>

\* lines 275-277
Persist ==
    /\ pc = "xlsx_written"
    /\ IF DEDUP_ENABLED /\ DEDUP_DAYS > 0
       THEN /\ handled' = mark_handled(new_trackings, 1, handled, now)
            /\ disk' = save_state(handled')
            /\ saves' = saves + 1
       ELSE UNCHANGED <<handled, disk, saves>>
    /\ pc' = "done"
    /\ UNCHANGED <<now, runs, trackings, new_trackings, rows, out_json, out_xlsx,
                   disk0, exports, cvars, fvars>>

Next ==
    \/ StartRun
    \/ FetchOk
    \/ FetchFails
    \/ Gate
    \/ Normalize
    \/ WriteJson
    \/ WriteXlsx
    \/ Persist

Spec == Init /\ [][Next]_vars

----------------------------------------------------------------------------
(* Function specifications: Init draws the arguments of one function from   *)
(* a bounded set and the action applies the function.  The pipeline does    *)
(* not run in these specifications.                                         *)

PipelineIdle ==
    /\ pc = "idle"
    /\ now = 0
    /\ runs = 0
    /\ disk = FileMissing
    /\ handled = EmptyDict
    /\ Locals0
    /\ disk0 = FileMissing
    /\ saves = 0
    /\ exports = [k \in RunKeys |-> << >>]

Pending == [f |-> "pending"]

(* should_skip *)

Absent == [ty |-> "absent"]

Shipment1 == ShipmentOf(<<"1">>, None)
Shipment2 == ShipmentOf(<<"2">>, None)

\* the dict holding `stored` for shipment 1 and `other` for shipment 2
HandledOf(stored, other) ==
    [k \in {key_for_tracking(Shipment1) : x \in {stored} \ {Absent}}
           \cup {key_for_tracking(Shipment2) : x \in {other} \ {Absent}} |->
        IF k = key_for_tracking(Shipment1) THEN stored ELSE other]

SkipNow == 3 * DaySeconds
SkipDays == {-1, 0, 1, 2}
SkipOffsets == {-1, 0, 1}

\* instants at, one second before and one second after each window boundary,
\* the instant of the run and one in its future
SkipInstants ==
    {SkipNow - d * DaySeconds + o : d \in {1, 2}, o \in SkipOffsets} \cup {SkipNow, SkipNow + 1}

\* values that are not a timestamp: falsy ones, text, other JSON types
NotTimestamps ==
    {None, EmptyStr, PInt(0), PList(<< >>), PStr(<<"x">>), PInt(5), PList(<<PInt(1)>>)}

SkipStored ==
    {Absent} \cup NotTimestamps
    \cup {PIso(t, tz) : t \in SkipInstants, tz \in {"+00:00", ""}}

InitSkip ==
    /\ PipelineIdle
    /\ DEDUP_ENABLED \in BOOLEAN
    /\ DEDUP_DAYS \in SkipDays
    /\ \E stored \in SkipStored, other \in {Absent, PIso(SkipNow, "+00:00"), PStr(<<"x">>)} :
         fn_in = [f |-> "should_skip", tracking |-> Shipment1, stored |-> stored,
                  other |-> other, handled_state |-> HandledOf(stored, other), now |-> SkipNow]
    /\ fn_out = Pending

ApplySkip ==
    /\ fn_in.f = "should_skip"
    /\ fn_out = Pending
    /\ fn_out' = [f |-> "should_skip",
                  r |-> should_skip(fn_in.tracking, fn_in.handled_state, fn_in.now,
                                    DEDUP_ENABLED, DEDUP_DAYS),
                  r_alone |-> should_skip(fn_in.tracking,
                                          HandledOf(fn_in.stored, Absent), fn_in.now,
                                          DEDUP_ENABLED, DEDUP_DAYS)]
    /\ UNCHANGED <<fn_in, pvars, cvars>>

SpecSkip == InitSkip /\ [][ApplySkip]_vars

(* extract_last_checkpoint *)

cp_A == [k \in {k_id} |-> PStr(<<"A">>)]
cp_B == [k \in {k_id} |-> PStr(<<"B">>)]
cp_C == [k \in {k_id} |-> PStr(<<"C">>)]
cp_0 == [k \in {k_id} |-> PStr(<<"0">>)]

\* last_checkpoint / latest_checkpoint: absent, empty, an object, or a value
\* of another type
DirectA == {None, PDict(EmptyDict), PDict(cp_A), PStr(<<"x">>), PList(<<PDict(cp_A)>>)}
DirectB == {None, PDict(EmptyDict), PDict(cp_B), PStr(<<"x">>), PList(<<PDict(cp_B)>>)}

\* checkpoints: absent, empty, sequences ending in an object, in an empty
\* object or in a value of another type, or a value that is no sequence
Sequences_ ==
    {None, PList(<< >>), PList(<<PDict(cp_C)>>), PList(<<PDict(cp_0), PDict(cp_C)>>),
     PList(<<PDict(cp_C), PDict(EmptyDict)>>), PList(<<PDict(cp_C), PInt(5)>>),
     PDict(cp_C)}

InitCheckpoint ==
    /\ PipelineIdle
    /\ DEDUP_ENABLED = TRUE
    /\ DEDUP_DAYS = 1
    /\ \E a \in DirectA, b \in DirectB, c \in Sequences_ :
         fn_in = [f |-> "extract_last_checkpoint",
                  tracking |-> [Tracking0 EXCEPT !.last_checkpoint = a,
                                                 !.latest_checkpoint = b,
                                                 !.checkpoints = c]]
    /\ fn_out = Pending

ApplyCheckpoint ==
    /\ fn_in.f = "extract_last_checkpoint"
    /\ fn_out = Pending
    /\ fn_out' = [f |-> "extract_last_checkpoint", r |-> extract_last_checkpoint(fn_in.tracking)]
    /\ UNCHANGED <<fn_in, pvars, cvars>>

SpecCheckpoint == InitCheckpoint /\ [][ApplyCheckpoint]_vars

(* get_all_custom_fields *)

CfNameList == <<k_custom_1, <<"a">>, <<"b">>, <<"c">>>>
CfNames == {CfNameList[i] : i \in 1..MaxPairs}
CfValues == {None, PStr(s_ParcelHub_padded), EmptyStr, PInt(5)}

\* the key-to-value mappings M
CfMappings == UNION {[ks -> CfValues] : ks \in SUBSET CfNames}

\* the orders in which the keys of a mapping can be listed
Orders(S) == {q \in [1..Cardinality(S) -> S] : \A x \in S : \E i \in DOMAIN q : q[i] = x}

\* the {name, value} pair of an entry; a null value may also be left out
PairOf(name, v, omit) ==
    IF v = None /\ omit THEN PDict([k \in {k_name} |-> PStr(name)])
    ELSE PDict([k \in {k_name, k_value} |-> IF k = k_name THEN PStr(name) ELSE v])

\* sequence entries without a name: no name key, a null name, not an object
Nameless ==
    {PDict([k \in {k_value} |-> PStr(<<"x">>)]),
     PDict([k \in {k_name, k_value} |-> IF k = k_name THEN None ELSE PStr(<<"x">>)]),
     PInt(5)}

InsertAt(l, p, x) == SubSeq(l, 1, p - 1) \o <<x>> \o SubSeq(l, p, Len(l))

InitCustomFields ==
    /\ PipelineIdle
    /\ DEDUP_ENABLED = TRUE
    /\ DEDUP_DAYS = 1
    /\ \E M \in CfMappings, omit \in BOOLEAN, junk \in Nameless :
       \E order \in Orders(DOMAIN M) :
       \E p \in 1..(Len(order) + 1) :
         LET pairs == [i \in 1..Len(order) |-> PairOf(order[i], M[order[i]], omit)] IN
         fn_in = [f |-> "get_all_custom_fields",
                  M |-> M,
                  omit |-> omit,
                  p |-> p,
                  as_dict |-> [Tracking0 EXCEPT !.custom_fields = PDict(M)],
                  as_list |-> [Tracking0 EXCEPT !.custom_fields = PList(pairs)],
                  with_nameless |->
                      [Tracking0 EXCEPT !.custom_fields = PList(InsertAt(pairs, p, junk))]]
    /\ fn_out = Pending

ApplyCustomFields ==
    /\ fn_in.f = "get_all_custom_fields"
    /\ fn_out = Pending
    /\ fn_out' = [f |-> "get_all_custom_fields",
                  from_dict |-> get_all_custom_fields(fn_in.as_dict),
                  from_list |-> get_all_custom_fields(fn_in.as_list),
                  from_nameless |-> get_all_custom_fields(fn_in.with_nameless)]
    /\ UNCHANGED <<fn_in, pvars, cvars>>

SpecCustomFields == InitCustomFields /\ [][ApplyCustomFields]_vars

(* normalize *)

s_padded_1 == <<" ", "1", " ">>

NormTrackings ==
    {[tag |-> tag, slug |-> slug, tracking_number |-> tn, custom_fields |-> cf,
      last_checkpoint |-> a, latest_checkpoint |-> None, checkpoints |-> c,
      order_id |-> oid, title |-> title, source |-> None, updated_at |-> upd] :
        tag \in {None, PStr(AFTERSHIP_TAG \o <<" ">>)},
        slug \in {None, PStr(s_dhl)},
        tn \in {None, PStr(s_padded_1), PInt(5)},
        cf \in {None, PStr(<<"x">>),
                PDict([k \in {k_custom_1} |-> PStr(s_ParcelHub_padded)]),
                PList(<<PDict([k \in {k_name, k_value} |->
                                  IF k = k_name THEN PStr(ORDER_ID_CUSTOM_FIELD)
                                  ELSE PInt(5)])>>)},
        a \in {None, PStr(<<"x">>),
               PDict([k \in {k_id, k_city} |-> IF k = k_id THEN PInt(9) ELSE PStr(<<"c">>)])},
        c \in {None, PList(<<PDict([k \in {k_location} |-> PStr(<<"l">>)])>>),
               PList(<<PDict([k \in {k_city} |-> PInt(5)])>>)},
        oid \in {None, PInt(7)},
        title \in {None, PStr(<<"t">>), PInt(5)},
        upd \in {None, PInt(5)}}

InitNormalize ==
    /\ PipelineIdle
    /\ DEDUP_ENABLED = TRUE
    /\ DEDUP_DAYS = 1
    /\ \E t \in NormTrackings, cm \in CourierMaps :
         fn_in = [f |-> "normalize", tracking |-> t, courier_map |-> cm]
    /\ fn_out = Pending

ApplyNormalize ==
    /\ fn_in.f = "normalize"
    /\ fn_out = Pending
    /\ fn_out' = [f |-> "normalize", r |-> normalize(<<fn_in.tracking>>, 1, fn_in.courier_map)]
    /\ UNCHANGED <<fn_in, pvars, cvars>>

SpecNormalize == InitNormalize /\ [][ApplyNormalize]_vars

----------------------------------------------------------------------------
(* Properties of the run pipeline (specification Spec) *)

DedupActive == DEDUP_ENABLED /\ DEDUP_DAYS > 0
Window == DEDUP_DAYS * DaySeconds

KeysOf(l) == {key_for_tracking(l[i]) : i \in DOMAIN l}

\* keys the finished run added to the saved state or whose value it changed
MarkedKeys ==
    {k \in DOMAIN disk.map : k \notin DOMAIN disk0.map \/ disk.map[k] # disk0.map[k]}

\* keys of the records the run wrote to the JSON export
ExportedKeys ==
    IF out_json.written
    THEN {row_key(out_json.content.items[i]) : i \in DOMAIN out_json.content.items}
    ELSE {}

\* C1: after a run with dedup active, the keys marked in the saved state are
\* exactly the keys of the records the run exported; a tracking dropped by the
\* custom_1 filter is neither exported nor marked.
C1_MarkedEqualsExported ==
    (pc = "done" /\ DedupActive) => MarkedKeys = ExportedKeys

\* C2: with dedup active, any two exports of a record with the same identity
\* key, in the same run or in different runs, are at least the window apart.
C2_AtMostOncePerWindow ==
    DedupActive =>
        \A k \in DOMAIN exports : \A i, j \in DOMAIN exports[k] :
            i < j => exports[k][j] - exports[k][i] >= Window

\* C2 (amended): with dedup active, two exports of a record with the same
\* identity key made by different runs are at least the window apart; exports
\* of the same key within one run are not suppressed.
C2_AtMostOneRunPerWindow ==
    DedupActive =>
        \A k \in DOMAIN exports : \A i, j \in DOMAIN exports[k] :
            i < j => \/ exports[k][j] = exports[k][i]
                     \/ exports[k][j] - exports[k][i] >= Window

\* a key was exported by one run, suppressed in between or not, and exported
\* again by a later run
C2_Witness ==
    /\ DedupActive
    /\ \E k \in DOMAIN exports : \E i, j \in DOMAIN exports[k] :
          exports[k][i] < exports[k][j]

\* C5: the run writes the persisted state at most once, and only when dedup
\* is active and the run marked at least one tracking.
C5_SaveOnlyWhenMarked ==
    /\ saves <= 1
    /\ saves > 0 => DedupActive /\ new_trackings # << >>

\* C5 (amended): the run writes the persisted state at most once, at its end,
\* when and only when dedup is active; a run that marked nothing writes back
\* the mapping it loaded, and before the end the file is as the run found it.
C5_SaveOnceAtEndWhenActive ==
    /\ saves <= 1
    /\ saves = 1 <=> (pc = "done" /\ DedupActive)
    /\ saves = 0 => disk = disk0
    /\ (pc = "done" /\ new_trackings = << >>) => disk.map = disk0.map

\* a finished run in which every fetched tracking was a duplicate saved the state
C5_Witness ==
    /\ pc = "done"
    /\ saves = 1
    /\ trackings # << >>
    /\ new_trackings = << >>
    /\ disk = disk0

\* C6: a run whose fetch fails writes neither export and leaves the persisted
\* state as it found it; in every run the persisted state changes only in the
\* final step, after the JSON and the spreadsheet were written in that order.
C6_FetchFailureNoSideEffects ==
    /\ pc = "fetch_failed" =>
          /\ ~out_json.written
          /\ ~out_xlsx.written
          /\ disk = disk0
          /\ saves = 0
    /\ (disk # disk0 \/ saves > 0) =>
          pc = "done" /\ out_json.written /\ out_xlsx.written
    /\ out_xlsx.written => out_json.written
    /\ out_json.written => pc \in {"json_written", "xlsx_written", "done"}

\* the fetch of a second run failed, after a first run had saved state
C6_Witness ==
    /\ pc = "fetch_failed"
    /\ runs = 2
    /\ DedupActive
    /\ DOMAIN disk.map # {}
    /\ \E k \in DOMAIN disk.map : disk.map[k].ty = "iso" /\ disk.map[k].secs > 0

\* C10: a finished run leaves the stored value of every key that did not pass
\* its dedup gate (suppressed as a duplicate, or not fetched) exactly as
\* loaded; and a fetched tracking whose stored timestamp is a full window old
\* passes the gate.
C10_OnlyGatePassersRestamped ==
    /\ pc = "done" =>
          \A k \in (DOMAIN disk.map \cup DOMAIN disk0.map) \ KeysOf(new_trackings) :
              /\ k \in DOMAIN disk0.map
              /\ k \in DOMAIN disk.map
              /\ disk.map[k] = disk0.map[k]
    /\ pc \in {"gated", "normalized", "json_written", "xlsx_written"} =>
          \A i \in DOMAIN trackings :
              LET last == Get(handled, key_for_tracking(trackings[i])) IN
              (last.ty = "iso" /\ last.tz # "" /\ now - last.secs >= Window)
                  => \E j \in DOMAIN new_trackings : new_trackings[j] = trackings[i]

\* a second run suppressed a key the first run had stamped, kept that stamp
\* and stamped another key
C10_Witness ==
    /\ pc = "done"
    /\ runs = 2
    /\ DedupActive
    /\ \E k \in KeysOf(trackings) \ KeysOf(new_trackings) :
          /\ disk.map[k].ty = "iso"
          /\ disk.map[k].secs > 0
          /\ disk.map[k].secs < now
    /\ \E k \in KeysOf(new_trackings) : disk.map[k] = isoformat(now)

----------------------------------------------------------------------------
(* Properties of should_skip (specification SpecSkip) *)

\* C3: with dedup active and a parseable timestamp stored for the key,
\* should_skip returns true exactly when now - ts is less than the window
\* (false at exactly the window, true one second before); with dedup
\* disabled, a window of zero days or less, or no entry for the key, it
\* returns false.
C3_StrictBoundary ==
    fn_out.f = "should_skip" =>
        LET st == fn_in.stored IN
        /\ (DedupActive /\ st.ty = "iso") =>
              /\ ~fn_out.r.raised
              /\ fn_out.r.val <=> (fn_in.now - st.secs < Window)
        /\ (~DedupActive \/ st = Absent) => fn_out.r = Returns(FALSE)

\* what C3 states holds of every stored timestamp that carries a UTC offset
C3_AwareBoundary ==
    fn_out.f = "should_skip" =>
        LET st == fn_in.stored IN
        /\ (DedupActive /\ st.ty = "iso" /\ st.tz # "") =>
              /\ ~fn_out.r.raised
              /\ fn_out.r.val <=> (fn_in.now - st.secs < Window)
        /\ (~DedupActive \/ st = Absent) => fn_out.r = Returns(FALSE)

\* C4: for a stored value that is not a timestamp, should_skip returns false
\* without raising, as it does for a key that was never seen; and a value
\* that is not a timestamp stored for another key leaves the result unchanged.
C4_FailOpen ==
    fn_out.f = "should_skip" =>
        /\ fn_in.stored \in NotTimestamps => fn_out.r = Returns(FALSE)
        /\ fn_in.other \in NotTimestamps => fn_out.r = fn_out.r_alone

\* dedup is active, the key holds text that is no timestamp, another key
\* holds a fresh timestamp, and should_skip returned false
C4_Witness ==
    /\ fn_out.f = "should_skip"
    /\ DedupActive
    /\ fn_in.stored = PStr(<<"x">>)
    /\ fn_in.other = PIso(SkipNow, "+00:00")
    /\ fn_out.r = Returns(FALSE)

----------------------------------------------------------------------------
(* Properties of normalize (specification SpecNormalize) *)

StringFields ==
    {"tracking_number", "carrier_slug", "courier_name", "status_tag", "title",
     "order_id", "sales_office_id", "source", "custom_fields_json",
     "last_checkpoint_id", "last_checkpoint_time", "last_checkpoint_location",
     "updated_at"}

\* C7: for every tracking the filter does not drop, whatever the shape or type
\* of its fields, normalize does not raise and emits one record that has every
\* fixed field, each a string, and custom_fields a string-to-string mapping.
C7_CanonicalRecord ==
    (fn_out.f = "normalize" /\ ~is_filtered(fn_in.tracking)) =>
        /\ ~fn_out.r.raised
        /\ Len(fn_out.r.val) = 1
        /\ LET row == fn_out.r.val[1] IN
           /\ DOMAIN row = StringFields \cup {"custom_fields"}
           /\ \A f \in StringFields : IsStr(row[f])
           /\ IsDict(row.custom_fields)
           /\ \A k \in DOMAIN row.custom_fields.d : IsStr(row.custom_fields.d[k])

----------------------------------------------------------------------------
(* Properties of extract_last_checkpoint (specification SpecCheckpoint) *)

AbsentEmptyOrObject(v) == v = None \/ IsDict(v)

\* the final element of the checkpoints sequence, when it is an object
FinalOf(c) ==
    IF IsList(c) /\ c.l # << >> /\ IsDict(c.l[Len(c.l)]) THEN c.l[Len(c.l)].d ELSE EmptyDict

\* C8: when last_checkpoint and latest_checkpoint are each absent, empty or
\* an object, the result is the first non-empty one of last_checkpoint,
\* latest_checkpoint and the final element of checkpoints, and the empty
\* mapping when there is none.
C8_Precedence ==
    LET a == fn_in.tracking.last_checkpoint
        b == fn_in.tracking.latest_checkpoint
        c == fn_in.tracking.checkpoints
    IN  (fn_out.f = "extract_last_checkpoint"
         /\ AbsentEmptyOrObject(a) /\ AbsentEmptyOrObject(b)) =>
            fn_out.r = IF IsDict(a) /\ DOMAIN a.d # {} THEN a.d
                       ELSE IF IsDict(b) /\ DOMAIN b.d # {} THEN b.d
                       ELSE FinalOf(c)

\* last_checkpoint is empty, latest_checkpoint and checkpoints both hold an
\* object, and latest_checkpoint was returned
C8_Witness ==
    /\ fn_out.f = "extract_last_checkpoint"
    /\ fn_in.tracking.last_checkpoint = PDict(EmptyDict)
    /\ fn_in.tracking.latest_checkpoint = PDict(cp_B)
    /\ fn_in.tracking.checkpoints = PList(<<PDict(cp_0), PDict(cp_C)>>)
    /\ fn_out.r = cp_B

----------------------------------------------------------------------------
(* Properties of get_all_custom_fields (specification SpecCustomFields) *)

\* C9: a mapping M and the sequence of {name, value} pairs listing M yield the
\* same string-to-string mapping: the keys of M, null or missing values as the
\* empty string, other values stringified; a sequence entry without a name is
\* dropped and the other entries are still in the result.
C9_SameCanonicalMapping ==
    fn_out.f = "get_all_custom_fields" =>
        /\ fn_out.from_list = fn_out.from_dict
        /\ fn_out.from_nameless = fn_out.from_list
        /\ DOMAIN fn_out.from_list = DOMAIN fn_in.M
        /\ \A k \in DOMAIN fn_in.M :
              /\ fn_in.M[k] = None => fn_out.from_list[k] = << >>
              /\ fn_in.M[k] = PInt(5) => fn_out.from_list[k] = <<"5">>
              /\ fn_in.M[k].ty = "str" => fn_out.from_list[k] = fn_in.M[k].s

\* a mapping of two keys, one of them null and left out of its pair, listed
\* with a nameless entry between the two pairs
C9_Witness ==
    /\ fn_out.f = "get_all_custom_fields"
    /\ Cardinality(DOMAIN fn_in.M) = 2
    /\ \E k \in DOMAIN fn_in.M : fn_in.M[k] = None
    /\ \E k \in DOMAIN fn_in.M : fn_in.M[k] = PInt(5)
    /\ fn_in.omit
    /\ fn_in.p = 2
    /\ Cardinality(DOMAIN fn_out.from_nameless) = 2

====
